---- MODULE Spec2Model ----
(***************************************************************************)
(* Overlapping Wave Function Collapse (src/src/overlapping_wfc.hpp).       *)
(*                                                                         *)
(* The module models OverlappingWFC::init (palette, pattern extraction,    *)
(* base-C fingerprints, patternFromIndex, agrees, propagator),             *)
(* OverlappingWFC::clear (ground bans) and OverlappingWFC::get_output, and *)
(* the driver of the WFC base class around them (wave, ban, observe,       *)
(* collapse, propagate), which is not part of overlapping_wfc.hpp and is   *)
(* modelled from the specification's sections 4.3 to 4.5.                  *)
(***************************************************************************)
EXTENDS Integers, Sequences, FiniteSets, TLC

(***************************************************************************)
(* size_t arithmetic.  A size_t is 64 bits wide; TLC's integers are 32     *)
(* bits wide, so a size_t is kept as NumLimbs limbs of 16 bits, least      *)
(* significant first, and every operation is taken modulo 2^SizeBits as    *)
(* the unsigned arithmetic of the source is.                               *)
(***************************************************************************)
SizeBits == 64

\* F applied to the value of x: x is evaluated once, before F is.
Bind(x, F(_)) == CHOOSE r \in { F(v) : v \in {x} } : TRUE

LimbBase == 2^16

NumLimbs == SizeBits \div 16

\* The size_t whose value is n, for 0 <= n < 2^31.
ToU64(n) ==
    [i \in 1..NumLimbs |-> IF i = 1 THEN n % LimbBase
                           ELSE IF i = 2 THEN n \div LimbBase ELSE 0]

IsZeroU64(a) == \A i \in 1..NumLimbs : a[i] = 0

RECURSIVE MulFrom(_, _, _, _)
MulFrom(a, c, i, carry) ==
    IF i > NumLimbs THEN <<>>
    ELSE LET t == a[i] * c + carry
         IN  <<t % LimbBase>> \o MulFrom(a, c, i + 1, t \div LimbBase)

\* a * c modulo 2^SizeBits, for a small factor c (a palette size or index).
MulU64(a, c) == Bind(a, LAMBDA v : MulFrom(v, c, 1, 0))

RECURSIVE AddFrom(_, _, _, _)
AddFrom(a, b, i, carry) ==
    IF i > NumLimbs THEN <<>>
    ELSE LET t == a[i] + b[i] + carry
         IN  <<t % LimbBase>> \o AddFrom(a, b, i + 1, t \div LimbBase)

\* a + b modulo 2^SizeBits.
AddU64(a, b) == Bind(<<a, b>>, LAMBDA v : AddFrom(v[1], v[2], 1, 0))

RECURSIVE SubFrom(_, _, _, _)
SubFrom(a, b, i, borrow) ==
    IF i > NumLimbs THEN <<>>
    ELSE LET t == a[i] - b[i] - borrow
         IN  IF t < 0 THEN <<t + LimbBase>> \o SubFrom(a, b, i + 1, 1)
             ELSE <<t>> \o SubFrom(a, b, i + 1, 0)

\* a - b modulo 2^SizeBits.
SubU64(a, b) == Bind(<<a, b>>, LAMBDA v : SubFrom(v[1], v[2], 1, 0))

RECURSIVE GeqFrom(_, _, _)
GeqFrom(a, b, i) ==
    IF i = 0 THEN TRUE
    ELSE IF a[i] # b[i] THEN a[i] > b[i]
    ELSE GeqFrom(a, b, i - 1)

\* a >= b.
GeqU64(a, b) == Bind(<<a, b>>, LAMBDA v : GeqFrom(v[1], v[2], NumLimbs))

RECURSIVE DivFrom(_, _, _, _)
DivFrom(a, c, i, rem) ==
    IF i = 0 THEN <<>>
    ELSE LET t == rem * LimbBase + a[i]
         IN  DivFrom(a, c, i - 1, t % c) \o <<t \div c>>

\* a / c (unsigned integer division) for a small divisor c >= 1.
DivU64(a, c) == Bind(a, LAMBDA v : DivFrom(v, c, NumLimbs, 0))

(***************************************************************************)
(* Exemplars.  A colour is a packed 24-bit RGB value.                      *)
(***************************************************************************)
Rgb(r, g, b) == r * 65536 + g * 256 + b

White == Rgb(255, 255, 255)

Black == Rgb(0, 0, 0)

Red == Rgb(255, 0, 0)

\* An exemplar: i_W x i_H colours, row-major (Array2D<uint32_t>::data).
Image(w, h, data) == [i_W |-> w, i_H |-> h, data |-> data]

\* Sixteen distinct colours, for a 4 x 4 exemplar of sixteen colours.
Shade(k) == Rgb(16 * k, 16 * k, 16 * k)

Exemplars ==
    { Image(1, 1, <<White>>),
      Image(2, 1, <<Black, White>>),
      Image(1, 2, <<White, Black>>),
      Image(2, 2, <<Black, White, White, Black>>),
      Image(2, 2, <<White, White, White, Black>>),
      Image(2, 3, <<White, White, White, White, Black, Black>>),
      Image(3, 1, <<Black, White, Red>>),
      Image(4, 4, [k \in 1..16 |-> Shade(k - 1)]) }

(***************************************************************************)
(* init(): the palette.                                                    *)
(***************************************************************************)
\* The position (from 0) of v in the sequence s.
IndexIn(s, v) == (CHOOSE k \in 1..Len(s) : s[k] = v) - 1

Contains(s, v) == \E k \in 1..Len(s) : s[k] = v

RECURSIVE OrdsFrom(_, _, _)
OrdsFrom(data, i, cols) ==
    IF i > Len(data) THEN cols
    ELSE Bind(IF Contains(cols, data[i]) THEN cols ELSE Append(cols, data[i]),
              LAMBDA v : OrdsFrom(data, i + 1, v))

\* ords<uint8_t>(input.data, colors): the palette, in first-appearance order.
OrdsColors(data) == OrdsFrom(data, 1, <<>>)

\* ords<uint8_t>(input.data, colors): each pixel as its palette index.
OrdsSample(data) ==
    [i \in 1..Len(data) |-> IndexIn(OrdsColors(data), data[i]) % 256]

(***************************************************************************)
(* init(): windows and their symmetric variants.                           *)
(***************************************************************************)
\* Helper::pattern(temp, N, f): temp[dx + dy * N] = f(dx, dy).
PatternOf(n, f(_, _)) ==
    [k \in 1..(n * n) |-> f((k - 1) % n, (k - 1) \div n)]

\* The window of the exemplar whose origin is (x, y), sampled modulo i_W, i_H.
Window(img, n, x, y) ==
    LET sample == OrdsSample(img.data)
        at(dx, dy) == sample[((x + dx) % img.i_W)
                             + ((y + dy) % img.i_H) * img.i_W + 1]
    IN  PatternOf(n, at)

\* Helper::rotated(q, out, N).
rotated(q, n) ==
    LET at(x, y) == q[(n - 1 - y) + x * n + 1] IN PatternOf(n, at)

\* Helper::reflected(q, out, N).
reflected(q, n) ==
    LET at(x, y) == q[(n - 1 - x) + y * n + 1] IN PatternOf(n, at)

\* Helper::squareSymmetries(temp, rotate, reflect, same, symmetry): the first
\* `symmetry` of identity, rotate90, rotate180, rotate270 and their reflections.
squareSymmetries(q, n, symmetry) ==
    LET r1 == rotated(q, n)
        r2 == rotated(r1, n)
        r3 == rotated(r2, n)
        all == << q, r1, r2, r3, reflected(q, n), reflected(r1, n),
                  reflected(r2, n), reflected(r3, n) >>
    IN  SubSeq(all, 1, symmetry)

\* i_W - N + 1 as a size_t has wrapped around when i_W + 1 < N.
RangeWraps(i, n) == i + 1 < n

\* xmax / ymax of init(), when it has not wrapped.
OriginRange(periodic_input, i, n) == IF periodic_input THEN i ELSE i - n + 1

\* A wrapped range is 2^64 - k origins: the scan does not finish.  The outer
\* loop runs over y, so a wrapped xmax is only met when ymax is not 0.
ScanDiverges(img, n, periodic_input) ==
    /\ ~periodic_input
    /\ \/ RangeWraps(img.i_H, n)
       \/ RangeWraps(img.i_W, n) /\ img.i_H - n + 1 # 0

\* Every (origin, variant) of the scan, in the order of the loops of init():
\* y outermost, then x, then the variants of squareSymmetries.
Variants(img, n, periodic_input, symmetry) ==
    LET xmax == OriginRange(periodic_input, img.i_W, n)
        ymax == OriginRange(periodic_input, img.i_H, n)
    IN  IF xmax <= 0 \/ ymax <= 0 THEN <<>>
        ELSE [k \in 1..(ymax * xmax * symmetry) |->
                LET o == (k - 1) \div symmetry
                IN  squareSymmetries(Window(img, n, o % xmax, o \div xmax),
                                     n, symmetry)[((k - 1) % symmetry) + 1]]

(***************************************************************************)
(* init(): the base-C fingerprint and its decoding.                        *)
(***************************************************************************)
RECURSIVE FingerprintFrom(_, _, _, _, _)
FingerprintFrom(p, C, i, ind, power) ==
    IF i >= Len(p) THEN ind
    ELSE Bind(<<AddU64(ind, MulU64(power, p[Len(p) - i])), MulU64(power, C)>>,
              LAMBDA v : FingerprintFrom(p, C, i + 1, v[1], v[2]))

\* ind = sum of p[p.size() - 1 - i] * C^i, as a size_t.
Fingerprint(p, C) == FingerprintFrom(p, C, 0, ToU64(0), ToU64(1))

RECURSIVE PowerU64(_, _)
PowerU64(C, k) == IF k = 0 THEN ToU64(1) ELSE MulU64(PowerU64(C, k - 1), C)

\* W = C^(N*N), as a size_t.
FingerprintModulus(C, n) == PowerU64(C, n * n)

RECURSIVE DivideTimes(_, _, _)
DivideTimes(a, C, k) ==
    IF k = 0 THEN a
    ELSE Bind(DivU64(a, C), LAMBDA v : DivideTimes(v, C, k - 1))

RECURSIVE CountSubtractions(_, _)
CountSubtractions(residue, power) ==
    IF GeqU64(residue, power)
    THEN Bind(SubU64(residue, power),
              LAMBDA v : 1 + CountSubtractions(v, power))
    ELSE 0

RECURSIVE ResidueAfter(_, _)
ResidueAfter(residue, power) ==
    IF GeqU64(residue, power)
    THEN Bind(SubU64(residue, power), LAMBDA v : ResidueAfter(v, power))
    ELSE residue

RECURSIVE DecodeFrom(_, _, _, _, _)
DecodeFrom(residue, power, C, i, len) ==
    IF i >= len THEN <<>>
    ELSE Bind(DivU64(power, C),
              LAMBDA pw :
                <<CountSubtractions(residue, pw) % 256>>
                \o Bind(ResidueAfter(residue, pw),
                        LAMBDA v : DecodeFrom(v, pw, C, i + 1, len)))

\* What patternFromIndex yields when it does not return.
Diverges == <<-1>>

\* patternFromIndex(ind, result).  `while (residue >= power)` never ends once
\* power is 0, which it is for the last digit whenever W / C^len is 0.
patternFromIndex(ind, W, C, len) ==
    IF IsZeroU64(DivideTimes(W, C, len)) THEN Diverges
    ELSE DecodeFrom(ind, W, C, 0, len)

(***************************************************************************)
(* init(): the fingerprint table, in first-seen order.                     *)
(***************************************************************************)
\* `if (!(wtable[ind]++)) ordering.push_back(ind)` on the table t.
TallyOne(t, ind) ==
    IF Contains(t.ordering, ind)
    THEN [ordering |-> t.ordering,
          counts |-> [t.counts EXCEPT ![IndexIn(t.ordering, ind) + 1] = @ + 1]]
    ELSE [ordering |-> Append(t.ordering, ind), counts |-> Append(t.counts, 1)]

\* The variants lo..hi tallied in their order, the first half and then the
\* second.
RECURSIVE TallyFrom(_, _, _, _, _)
TallyFrom(vs, C, lo, hi, t) ==
    IF lo > hi THEN t
    ELSE IF lo = hi
    THEN Bind(Fingerprint(vs[lo], C), LAMBDA ind : TallyOne(t, ind))
    ELSE Bind(TallyFrom(vs, C, lo, (lo + hi) \div 2, t),
              LAMBDA v : TallyFrom(vs, C, (lo + hi) \div 2 + 1, hi, v))

\* wtable and ordering after the scan.
Tally(vs, C) ==
    Bind(vs, LAMBDA v : TallyFrom(v, C, 1, Len(v),
                                  [ordering |-> <<>>, counts |-> <<>>]))

(***************************************************************************)
(* init(): agreement on the overlap, and the propagator.                   *)
(***************************************************************************)
\* The four cardinal offsets of the base class.
DX == <<-1, 0, 1, 0>>

DY == <<0, 1, 0, -1>>

Directions == 0..3

\* The direction whose offset is the negation of d's.
Opposite(d) ==
    CHOOSE e \in Directions : DX[e + 1] = -DX[d + 1] /\ DY[e + 1] = -DY[d + 1]

\* agrees with the row of p2 taken at y instead of y - dy.
agrees_SameRow(p1, p2, n, dx, dy) ==
    LET xmin == IF dx < 0 THEN 0 ELSE dx
        xmax == IF dx < 0 THEN dx + n ELSE n
        ymin == IF dy < 0 THEN 0 ELSE dy
        ymax == IF dy < 0 THEN dy + n ELSE n
    IN  \A y \in ymin..(ymax - 1) : \A x \in xmin..(xmax - 1) :
            p1[x + n * y + 1] = p2[(x - dx) + n * y + 1]

\* agrees(p1, p2, dx, dy).
agrees(p1, p2, n, dx, dy) ==
    LET xmin == IF dx < 0 THEN 0 ELSE dx
        xmax == IF dx < 0 THEN dx + n ELSE n
        ymin == IF dy < 0 THEN 0 ELSE dy
        ymax == IF dy < 0 THEN dy + n ELSE n
    IN  \A y \in ymin..(ymax - 1) : \A x \in xmin..(xmax - 1) :
            p1[x + n * y + 1] = p2[(x - dx) + n * (y - dy) + 1]

\* The p2 pushed onto propagator[d][p1]: those with agrees(p1, p2, DX[d],
\* DY[d]), in increasing order.
Agreeing(pats, n, d, p1) ==
    SelectSeq([k \in 1..Len(pats) |-> k - 1],
              LAMBDA p2 : agrees(pats[p1 + 1], pats[p2 + 1], n,
                                 DX[d + 1], DY[d + 1]))

\* propagator[d][p1] for every direction d and pattern p1.
BuildPropagator(pats, n) ==
    [d \in Directions |->
        [p1 \in 0..(Len(pats) - 1) |-> Agreeing(pats, n, d, p1)]]

(***************************************************************************)
(* The configurations explored.                                            *)
(***************************************************************************)
\* The largest output width and height.
MaxOut == 3

\* OverlappingWFCOptions::symmetry.
Symmetries == {1, 2, 8}

\* OverlappingWFCOptions::pattern_size for the exemplar: the exemplar of
\* sixteen colours is taken with 4 x 4 patterns, every other with 2 x 2 and 3 x 3.
SizesFor(img) == IF Len(img.data) = 16 THEN {4} ELSE {2, 3}

OutSizes(n) == n..(IF MaxOut > n THEN MaxOut ELSE n)

Configurations ==
    { [input |-> img, periodic_input |-> pin, periodic_output |-> pout,
       o_W |-> ow, o_H |-> oh, symmetry |-> sym, pattern_size |-> n,
       ground |-> g] :
        img \in Exemplars, pin \in BOOLEAN, pout \in BOOLEAN,
        ow \in 2..4, oh \in 2..4, sym \in Symmetries, n \in 2..4,
        g \in BOOLEAN }

VARIABLES
    options,        \* OverlappingWFCOptions, with the exemplar (input)
    colors,         \* the palette
    patterns,       \* patterns[k + 1] is pattern k
    weights,        \* weights[k + 1] is the weight of pattern k
    propagator,     \* propagator[d][p1]: the patterns compatible with p1 towards d
    P,              \* the number of patterns
    wave,           \* wave[cell]: the patterns still possible at the cell
    queue,          \* the (cell, pattern) bans not yet propagated
    observed,       \* the cell observe_cell() returned, to collapse
    pc,             \* where the driver is
    result,         \* "none", "success" or "failure"
    out,            \* the image get_output() returned
    last_op,        \* the last operation the driver performed
    ground_failed,  \* clear() logged "ground propagate failed"
    emptied_by      \* the operations a ban of which removed the last
                    \* pattern of a cell

vars == << options, colors, patterns, weights, propagator, P, wave, queue,
           observed, pc, result, out, last_op, ground_failed, emptied_by >>

N == options.pattern_size

\* WFC(options.o_W, options.o_H, 1, options.pattern_size, ...): the grid of
\* the base class, which get_output() also takes for the size of the image.
MX == options.o_W

MY == options.o_H

periodic == options.periodic_output

Cells == 0..(MX * MY - 1)

Init ==
    /\ options \in { c \in Configurations :
                        /\ c.pattern_size \in SizesFor(c.input)
                        /\ c.o_W \in OutSizes(c.pattern_size)
                        /\ c.o_H \in OutSizes(c.pattern_size) }
    /\ colors = <<>>
    /\ patterns = <<>>
    /\ weights = <<>>
    /\ propagator = <<>>
    /\ P = 0
    /\ wave = <<>>
    /\ queue = <<>>
    /\ observed = -1
    /\ pc = "init"
    /\ result = "none"
    /\ out = <<>>
    /\ last_op = "none"
    /\ ground_failed = FALSE
    /\ emptied_by = {}

(***************************************************************************)
(* init().                                                                 *)
(***************************************************************************)
\* What init() computes: the palette, the pattern table (or Diverges where
\* patternFromIndex does not return), the weights and whether the scan ends.
Extracted(o) ==
    LET img == o.input
        n == o.pattern_size
        cols == OrdsColors(img.data)
        C == Len(cols)
    IN  Bind(Tally(Variants(img, n, o.periodic_input, o.symmetry), C),
             LAMBDA t :
               [colors |-> cols,
                patterns |-> [k \in 1..Len(t.ordering) |->
                                patternFromIndex(t.ordering[k],
                                                 FingerprintModulus(C, n),
                                                 C, n * n)],
                weights |-> t.counts,
                returns |-> ~ScanDiverges(img, n, o.periodic_input)])

InitReturns(e) ==
    e.returns /\ \A k \in 1..Len(e.patterns) : e.patterns[k] # Diverges

\* The driver's first step: init(), then the wave with every pattern possible
\* at every cell.  When init() does not return, the driver stays there.
DoInit ==
    /\ pc = "init"
    /\ \E e \in {Extracted(options)} :
           IF InitReturns(e)
           THEN /\ colors' = e.colors
                /\ patterns' = e.patterns
                /\ weights' = e.weights
                /\ P' = Len(e.patterns)
                /\ propagator' = BuildPropagator(e.patterns, N)
                /\ wave' = [c \in Cells |-> 0..(Len(e.patterns) - 1)]
                /\ pc' = "clear"
           ELSE /\ colors' = e.colors
                /\ pc' = "hang"
                /\ UNCHANGED << patterns, weights, P, propagator, wave >>
    /\ last_op' = "init"
    /\ UNCHANGED << options, queue, observed, result, out, ground_failed,
                    emptied_by >>

(***************************************************************************)
(* The wave of the base class: ban and propagate.                          *)
(***************************************************************************)
\* A wave under change: the wave, the queue of bans to propagate, and whether
\* a ban has removed the last pattern of a cell.
Solving(w, q, e) == [wave |-> w, queue |-> q, emptied |-> e]

\* ban(cell, p): a no-op when p is already banned at the cell; else p is no
\* longer possible there and (cell, p) is queued for the propagator.
ban(st, cell, p) ==
    IF p \notin st.wave[cell] THEN st
    ELSE Solving([st.wave EXCEPT ![cell] = @ \ {p}],
                 Append(st.queue, <<cell, p>>),
                 st.emptied \/ st.wave[cell] = {p})

\* The bans lo..hi of the sequence `bans` in their order, the first half and
\* then the second.
RECURSIVE BanFrom(_, _, _, _)
BanFrom(st, bans, lo, hi) ==
    IF lo > hi THEN st
    ELSE IF lo = hi THEN ban(st, bans[lo][1], bans[lo][2])
    ELSE Bind(BanFrom(st, bans, lo, (lo + hi) \div 2),
              LAMBDA v : BanFrom(v, bans, (lo + hi) \div 2 + 1, hi))

\* The bans of the sequence `bans`, one after the other.
BanAll(st, bans) ==
    Bind(<<st, bans>>, LAMBDA v : BanFrom(v[1], v[2], 1, Len(v[2])))

\* The cell next to `cell` towards d: wrapped around when the output is
\* periodic, and -1 when it is not and the neighbour is off the grid.
Neighbour(cell, d) ==
    LET x2 == (cell % MX) + DX[d + 1]
        y2 == (cell \div MX) + DY[d + 1]
    IN  IF periodic THEN ((x2 + MX) % MX) + ((y2 + MY) % MY) * MX
        ELSE IF x2 < 0 \/ y2 < 0 \/ x2 >= MX \/ y2 >= MY THEN -1
        ELSE x2 + y2 * MX

\* The support counter of p2 at the neighbour of `cell` towards d is zero: no
\* pattern still possible at `cell` has p2 in its list for d.
Unsupported(w, cell, d, p2) ==
    \A q \in w[cell] : ~Contains(propagator[d][q], p2)

\* The bans one dequeued event (cell, p) gives rise to, direction by direction:
\* the patterns p supported at each neighbour that have lost all their support.
BansOfEvent(w, cell, p) ==
    LET towards(d) ==
            LET n == Neighbour(cell, d)
                gone(p2) == p2 \in w[n] /\ Unsupported(w, cell, d, p2)
                lost == IF n = -1 THEN <<>>
                        ELSE SelectSeq(propagator[d][p], gone)
            IN  [k \in 1..Len(lost) |-> <<n, lost[k]>>]
    IN  towards(0) \o towards(1) \o towards(2) \o towards(3)

Contradicted(w) == \E c \in DOMAIN w : w[c] = {}

\* The loop of propagate() has ended: the queue is drained, or a cell has no
\* pattern left.
Settled(st) == Contradicted(st.wave) \/ st.queue = <<>>

\* One turn of the loop: the oldest event leaves the queue and its bans are
\* issued.
PropagateEvent(st) ==
    IF Settled(st) THEN st
    ELSE BanAll(Solving(st.wave, Tail(st.queue), st.emptied),
                BansOfEvent(st.wave, Head(st.queue)[1], Head(st.queue)[2]))

\* Up to 2^k turns of the loop.
RECURSIVE PropagateFrom(_, _)
PropagateFrom(st, k) ==
    IF Settled(st) THEN st
    ELSE IF k = 0 THEN PropagateEvent(st)
    ELSE Bind(PropagateFrom(st, k - 1), LAMBDA v : PropagateFrom(v, k - 1))

\* The least k with 2^k >= n.
RECURSIVE Doublings(_)
Doublings(n) == IF n <= 1 THEN 0 ELSE 1 + Doublings((n + 1) \div 2)

\* propagate(): the queue is drained first in, first out; it returns false
\* (a contradiction) as soon as a cell has no pattern left.  Each (cell,
\* pattern) is queued once at most, so MX * MY * P turns drain the queue.
propagate(st) ==
    Bind(st, LAMBDA v : PropagateFrom(v, Doublings(MX * MY * P + 1)))

(***************************************************************************)
(* clear().                                                                *)
(***************************************************************************)
\* The bans of clear() for column x were its second loop to start at y = 1:
\* the top cell keeps the last pattern.
GroundBansOfColumn_FromSecondRow(x) ==
    [p \in 1..(P - 1) |-> <<x + (MY - 1) * MX, p - 1>>]
    \o [y \in 2..(MY - 1) |-> <<x + (y - 1) * MX, P - 1>>]

\* The bans of clear() for column x were its second loop to run to y < MY:
\* the bottom cell loses the last pattern too.
GroundBansOfColumn_ThroughBottom(x) ==
    [p \in 1..(P - 1) |-> <<x + (MY - 1) * MX, p - 1>>]
    \o [y \in 1..MY |-> <<x + (y - 1) * MX, P - 1>>]

\* The bans of clear() for column x: every pattern but the last at the bottom
\* cell, then the last pattern at every cell above it.
GroundBansOfColumn(x) ==
    [p \in 1..(P - 1) |-> <<x + (MY - 1) * MX, p - 1>>]
    \o [y \in 1..(MY - 1) |-> <<x + (y - 1) * MX, P - 1>>]

RECURSIVE GroundBansFrom(_)
GroundBansFrom(x) ==
    IF x >= MX THEN <<>> ELSE GroundBansOfColumn(x) \o GroundBansFrom(x + 1)

\* The bans of the two loops of clear(), in the order they are issued.
GroundBans == GroundBansFrom(0)

\* The ground branch of clear() on a wave: the wave once the bans of the two
\* loops are issued (banned), and once propagate() has run on it (settled).
GroundCleared(st) ==
    Bind(BanAll(st, GroundBans),
         LAMBDA b : [banned |-> b,
                     settled |-> propagate(Solving(b.wave, b.queue, FALSE))])

\* clear(): in ground mode the bans, then propagate(), whose failure is only
\* logged.  With P = 0 the bound P - 1 of the first loop wraps around and the
\* loop writes past the wave until the process faults.
Clear ==
    /\ pc = "clear"
    /\ IF ~options.ground
       THEN /\ pc' = "observe"
            /\ UNCHANGED << wave, queue, ground_failed, emptied_by >>
       ELSE IF P = 0
       THEN /\ pc' = "crash"
            /\ UNCHANGED << wave, queue, ground_failed, emptied_by >>
       ELSE \E g \in {GroundCleared(Solving(wave, queue, FALSE))} :
                /\ wave' = g.settled.wave
                /\ queue' = g.settled.queue
                /\ emptied_by' =
                       emptied_by
                       \cup (IF g.banned.emptied THEN {"clear"} ELSE {})
                       \cup (IF g.settled.emptied THEN {"propagate"} ELSE {})
                /\ ground_failed' = Contradicted(g.settled.wave)
                /\ pc' = "observe"
    /\ last_op' = "clear"
    /\ UNCHANGED << options, colors, patterns, weights, propagator, P,
                    observed, result, out >>

(***************************************************************************)
(* The driver loop of the base class: observe, collapse, propagate.        *)
(***************************************************************************)
\* observe_cell(): CONTRADICTION when a cell has no pattern left, DONE when
\* every cell is a singleton, else a cell that is not a singleton (whichever
\* the heuristic prefers).
Observe ==
    /\ pc = "observe"
    /\ IF Contradicted(wave)
       THEN /\ result' = "failure"
            /\ pc' = "done"
            /\ UNCHANGED observed
       ELSE IF \A c \in Cells : Cardinality(wave[c]) = 1
       THEN /\ result' = "success"
            /\ pc' = "done"
            /\ UNCHANGED observed
       ELSE /\ \E c \in Cells :
                /\ Cardinality(wave[c]) > 1
                /\ observed' = c
            /\ pc' = "collapse"
            /\ UNCHANGED result
    /\ last_op' = "observe"
    /\ UNCHANGED << options, colors, patterns, weights, propagator, P, wave,
                    queue, out, ground_failed, emptied_by >>

\* The bans of collapse(cell): every possible pattern but the one kept.
CollapseBans(cell, keep) ==
    LET others == SelectSeq([k \in 1..P |-> k - 1],
                            LAMBDA q : q \in wave[cell] /\ q # keep)
    IN  [k \in 1..Len(others) |-> <<cell, others[k]>>]

\* collapse(cell, rng): one of the possible patterns is kept, drawn with its
\* weight, and the others are banned.
Collapse ==
    /\ pc = "collapse"
    /\ \E keep \in wave[observed] :
        /\ weights[keep + 1] > 0
        /\ \E st \in {BanAll(Solving(wave, queue, FALSE),
                             CollapseBans(observed, keep))} :
            /\ wave' = st.wave
            /\ queue' = st.queue
            /\ emptied_by' = emptied_by
                              \cup (IF st.emptied THEN {"collapse"} ELSE {})
    /\ pc' = "propagate"
    /\ last_op' = "collapse"
    /\ UNCHANGED << options, colors, patterns, weights, propagator, P,
                    observed, result, out, ground_failed >>

\* `if not propagate(): return failure`.
Propagate ==
    /\ pc = "propagate"
    /\ \E st \in {propagate(Solving(wave, queue, FALSE))} :
        /\ wave' = st.wave
        /\ queue' = st.queue
        /\ emptied_by' = emptied_by
                          \cup (IF st.emptied THEN {"propagate"} ELSE {})
        /\ IF Contradicted(st.wave)
           THEN result' = "failure" /\ pc' = "done"
           ELSE result' = result /\ pc' = "observe"
    /\ last_op' = "propagate"
    /\ UNCHANGED << options, colors, patterns, weights, propagator, P,
                    observed, out, ground_failed >>

(***************************************************************************)
(* get_output().                                                           *)
(***************************************************************************)
\* int dx = x < MX - N + 1 ? 0 : N - 1.
OffsetX(x) == IF x < MX - N + 1 THEN 0 ELSE N - 1

\* int dy = y < MY - N + 1 ? 0 : N - 1.
OffsetY(y) == IF y < MY - N + 1 THEN 0 ELSE N - 1

\* x - dx + (y - dy) * MX, the cell wave->get is asked for.  The size_t
\* arithmetic wraps around, so the index is this integer modulo 2^SizeBits: a
\* cell of the wave when it lies in 0..MX*MY-1, and no cell at all otherwise.
ReadIndex(x, y) == (x - OffsetX(x)) + (y - OffsetY(y)) * MX

\* The indices get_output() reads that are not cells of the wave.
StrayIndices ==
    { ReadIndex(x, y) : x \in 0..(MX - 1), y \in 0..(MY - 1) } \ Cells

\* The first pattern wave->get reports possible for index i, or -1.  A read
\* outside the wave yields whatever lies there: garbage[i] stands for it.
FirstPossible(i, garbage) ==
    IF i \in Cells
    THEN IF wave[i] = {} THEN -1
         ELSE CHOOSE p \in wave[i] : \A q \in wave[i] : p <= q
    ELSE garbage[i]

\* The three 8-bit channels of a packed colour.
Channels(color) ==
    << (color \div 65536) % 256, (color \div 256) % 256, color % 256 >>

\* The pixel (x, y) of get_output().
Pixel(x, y, garbage) ==
    LET found == FirstPossible(ReadIndex(x, y), garbage)
        ob == IF found < 0 THEN 0 ELSE found
        colorIndex == patterns[ob + 1][OffsetX(x) + OffsetY(y) * N + 1]
    IN  Channels(colors[colorIndex + 1])

\* The image get_output() returns: MX x MY pixels, row-major.
get_output(garbage) ==
    [k \in 1..(MX * MY) |-> Pixel((k - 1) % MX, (k - 1) \div MX, garbage)]

\* get_output() after a run that succeeded.  A read outside the wave is
\* undefined: it yields any pattern (or none, which decodes as pattern 0
\* does), or the process faults.
GetOutput ==
    /\ pc = "done"
    /\ result = "success"
    /\ \/ \E garbage \in [StrayIndices -> 0..(P - 1)] :
            /\ out' = get_output(garbage)
            /\ pc' = "output"
       \/ /\ StrayIndices # {}
          /\ pc' = "crash"
          /\ UNCHANGED out
    /\ last_op' = "get_output"
    /\ UNCHANGED << options, colors, patterns, weights, propagator, P, wave,
                    queue, observed, result, ground_failed, emptied_by >>

Next ==
    \/ DoInit
    \/ Clear
    \/ Observe
    \/ Collapse
    \/ Propagate
    \/ GetOutput

Spec == Init /\ [][Next]_vars

(***************************************************************************)
(* Properties.                                                             *)
(***************************************************************************)
\* The pattern a singleton cell has resolved to.
Resolved(c) == CHOOSE p \in wave[c] : TRUE

\* C1: after a run that succeeds, the patterns of any two cells next to one
\* another (wrapping iff the output is periodic) are in each other's
\* propagator lists: the neighbour's in the cell's list for the direction, the
\* cell's in the neighbour's list for the opposite direction.
C1_AdjacencyOnSuccess ==
    result = "success" =>
        \A c \in Cells : \A d \in Directions :
            LET n == Neighbour(c, d)
            IN  n # -1 =>
                  /\ Contains(propagator[d][Resolved(c)], Resolved(n))
                  /\ Contains(propagator[Opposite(d)][Resolved(n)], Resolved(c))

\* The pixels of the image from (x, y), N x N of them, row-major, wrapping
\* around the edges of the image.
ImageWindow(x, y) ==
    [k \in 1..(N * N) |->
        out[((x + ((k - 1) % N)) % MX) + ((y + ((k - 1) \div N)) % MY) * MX + 1]]

\* Pattern k as palette colours.
PatternColours(k) ==
    [i \in 1..(N * N) |-> Channels(colors[patterns[k + 1][i] + 1])]

\* The origins of the windows C2 is about.
WindowOrigins ==
    { xy \in (0..(MX - 1)) \X (0..(MY - 1)) :
        periodic \/ (xy[1] + N <= MX /\ xy[2] + N <= MY) }

\* C2: every N x N window of the image get_output() returns after a run that
\* succeeded (wrapping iff the output is periodic) is one of the patterns.
C2_OutputConsistency ==
    pc = "output" =>
        \A xy \in WindowOrigins :
            \E k \in 0..(P - 1) : ImageWindow(xy[1], xy[2]) = PatternColours(k)

\* C3: in the propagator init() returns with, p2 is in propagator[d][p1]
\* exactly when p1 is in propagator[opposite(d)][p2], for every direction d and
\* all patterns p1, p2.  (No later step writes the propagator.)
C3_CompatibilitySymmetry ==
    (last_op = "init" /\ pc = "clear") =>
        \A d \in Directions : \A p1 \in 0..(P - 1) : \A p2 \in 0..(P - 1) :
            Contains(propagator[d][p1], p2)
                <=> Contains(propagator[Opposite(d)][p2], p1)

\* init() has returned a table in which some p2 may follow p1 towards d while
\* p1 may not follow p2 towards d: the direction matters.
C3_Witness ==
    /\ pc = "clear"
    /\ \E d \in Directions : \E p1 \in 0..(P - 1) : \E p2 \in 0..(P - 1) :
          /\ Contains(propagator[d][p1], p2)
          /\ ~Contains(propagator[d][p2], p1)

\* C4: for every variant init() enumerates, patternFromIndex applied to its
\* fingerprint yields the variant.
C4_FingerprintRoundTrip ==
    last_op = "init" =>
        LET C == Len(colors)
            vs == Variants(options.input, N, options.periodic_input,
                           options.symmetry)
        IN  \A k \in 1..Len(vs) :
                patternFromIndex(Fingerprint(vs[k], C),
                                 FingerprintModulus(C, N), C, N * N) = vs[k]

RECURSIVE CarryFrom(_, _, _, _)
CarryFrom(a, c, i, carry) ==
    IF i > NumLimbs THEN carry
    ELSE CarryFrom(a, c, i + 1, (a[i] * c + carry) \div LimbBase)

\* C^(n*n) does not fit a size_t: one of the n*n multiplications by C carries
\* out of it.
FingerprintOverflows(C, n) ==
    \E k \in 0..(n * n - 1) :
        \E a \in {PowerU64(C, k)} : CarryFrom(a, C, 1, 0) # 0

\* The exemplar is smaller than a pattern and is not periodic.
ExemplarTooSmall ==
    /\ ~options.periodic_input
    /\ (options.input.i_W < N \/ options.input.i_H < N)

\* C5: when C^(N*N) does not fit the fingerprint, or the exemplar is smaller
\* than N x N and not periodic, init() ends in a configuration error and
\* builds no pattern table.
C5_ConfigurationError ==
    (/\ last_op = "init"
     /\ (FingerprintOverflows(Len(colors), N) \/ ExemplarTooSmall))
        => pc = "configuration error" /\ patterns = <<>>

\* C6: once the propagate() of clear() has failed, the run has ended: no
\* observe and no collapse follows.
C6_GroundFailureIsTerminal ==
    ground_failed => last_op \notin {"observe", "collapse"}

\* C7: in ground mode, in every state after clear(), a cell of the bottom row
\* has no pattern but P - 1 possible and a cell above it has not P - 1
\* possible; on success the bottom row is P - 1 and no other cell is.
C7_GroundPinning ==
    (options.ground /\ pc \notin {"init", "hang", "clear"}) =>
        /\ \A c \in Cells :
              IF c \div MX = MY - 1 THEN wave[c] \subseteq {P - 1}
              ELSE (P - 1) \notin wave[c]
        /\ result = "success" =>
              \A c \in Cells : (wave[c] = {P - 1}) <=> (c \div MX = MY - 1)

\* A ground run that succeeded, with several rows and several patterns.
C7_Witness ==
    /\ options.ground
    /\ result = "success"
    /\ MY >= 2
    /\ P >= 2

\* C8, as stated: no ban is issued on a cell that has exactly one possible
\* pattern.
C8_NoBanOnSingleton == emptied_by = {}

\* C8, amended: a ban that removes the only pattern of a cell is never one of
\* collapse, is one of clear()'s own loops only when P = 1, and leaves a
\* contradiction after which the run does not succeed.
C8_SingletonBanIsContradiction ==
    /\ "collapse" \notin emptied_by
    /\ "clear" \in emptied_by => P = 1
    /\ emptied_by # {} => Contradicted(wave) /\ result # "success"

\* A run with several patterns that failed because propagation removed the
\* only pattern of a cell.
C8_Witness ==
    /\ "propagate" \in emptied_by
    /\ result = "failure"
    /\ P >= 2

\* C9: when the output is periodic, get_output() takes dx = 0 and dy = 0 for
\* every pixel (x, y), and the pixel is the first entry of the first pattern
\* still possible at the cell (x, y) itself (of pattern 0 when there is none).
C9_PeriodicOffsetZero ==
    (periodic /\ pc = "output") =>
        \A x \in 0..(MX - 1) : \A y \in 0..(MY - 1) :
            LET found == FirstPossible(x + y * MX, <<>>)
                ob == IF found < 0 THEN 0 ELSE found
            IN  /\ OffsetX(x) = 0
                /\ OffsetY(y) = 0
                /\ out[x + y * MX + 1]
                      = Channels(colors[patterns[ob + 1][1] + 1])

\* C10: for every pixel (x, y) of get_output(), the cell (x - dx, y - dy) it
\* reads is on the grid and the offset dx + dy * N is within the pattern.
C10_ReadsInBounds ==
    last_op = "get_output" =>
        \A x \in 0..(MX - 1) : \A y \in 0..(MY - 1) :
            /\ 0 <= x - OffsetX(x) /\ x - OffsetX(x) < MX
            /\ 0 <= y - OffsetY(y) /\ y - OffsetY(y) < MY
            /\ 0 <= OffsetX(x) + OffsetY(y) * N
            /\ OffsetX(x) + OffsetY(y) * N < N * N

====
